---- MODULE Spec2Model ----
(***************************************************************************)
(* A model of the Netpbm package (src/pbm.go, src/ppm.go): the PBM, PGM    *)
(* and PPM grids, their whole-image transforms, their codecs, the depth    *)
(* conversions and the PPM rasterizer.                                     *)
(*                                                                         *)
(* A grid is a record [data, width, height, magicNumber, max] (a PBM has   *)
(* no max).  data is a sequence of rows and a row a sequence of samples,   *)
(* so the Go expression data[y][x] is data[y + 1][x + 1] here.             *)
(***************************************************************************)
EXTENDS Integers, Sequences, FiniteSets, TLC

VARIABLES
    kind,     \* "PBM", "PGM" or "PPM": the Go type of img
    img,      \* the grid the operations act on
    orig,     \* the grid as it was constructed (history variable)
    hist,     \* the names of the operations applied so far (history variable)
    stream,   \* the bytes of the file written by Save
    result,   \* what the last Read / conversion returned
    ref,      \* a second canvas, for the filled variant of a shape
    call,     \* the arguments of the drawing call made
    fault     \* TRUE once an operation has panicked (index out of range)

vars == <<kind, img, orig, hist, stream, result, ref, call, fault>>

-----------------------------------------------------------------------------
(* Bounds of the model. *)

\* grids of the transform specification have at most this many cells
MaxCells == 6

\* a behaviour of the transform specification applies at most this many operations
MaxOps == 4

\* the coordinates of the drawing calls range over -1..MaxCoord
MaxCoord == 3

\* a polygon has at most this many vertices
MaxVertices == 3

\* a behaviour of the mutator specification calls at most this many mutators
MaxMutations == 3

-----------------------------------------------------------------------------
(* Integer helpers. *)

Min2(a, b) == IF a < b THEN a ELSE b

Max2(a, b) == IF a > b THEN a ELSE b

AbsInt(a) == IF a < 0 THEN -a ELSE a

\* a Go uint8 keeps the low 8 bits
Uint8(n) == n % 256

\* a Go uint16 keeps the low 16 bits
Uint16(n) == n % 65536

\* Go's integer division truncates toward zero
GoDiv(a, b) == IF a >= 0 THEN a \div b ELSE -((-a) \div b)

-----------------------------------------------------------------------------
(* float64 arithmetic.  A finite float64 x is [k |-> "num", s, m]: s is its *)
(* sign and m its magnitude as four limbs of 20 bits, least significant     *)
(* first, counting units of 2^-60: |x| = (m[1] + m[2]*2^20 + m[3]*2^40 +    *)
(* m[4]*2^60) / 2^60.  So m[4] is the integer part of |x|.  Every result is *)
(* rounded to 53 significant bits, to nearest, ties to even, as IEEE 754    *)
(* does.  The representation is exact for the values of this model: the     *)
(* magnitudes are below 2^13 and a nonzero one is at least 2^-7.            *)

Limb == 2^20

Num(s, m) == [k |-> "num", s |-> s, m |-> m]

NaN == [k |-> "nan"]

Inf(s) == [k |-> "inf", s |-> s]

\* float64(n) of an int n
FromInt(n) == Num(IF n < 0 THEN -1 ELSE 1, <<0, 0, 0, AbsInt(n)>>)

IsZeroMag(m) == m = <<0, 0, 0, 0>>

\* limbs that may exceed 20 bits, brought back to 20 bits each (the top one keeps the rest)
Carry(m) ==
    LET c2 == m[2] + (m[1] \div Limb)
        c3 == m[3] + (c2 \div Limb)
        c4 == m[4] + (c3 \div Limb)
    IN  <<m[1] % Limb, c2 % Limb, c3 % Limb, c4>>

MagAdd(a, b) == Carry(<<a[1] + b[1], a[2] + b[2], a[3] + b[3], a[4] + b[4]>>)

\* a - b for a >= b
MagSub(a, b) ==
    LET d1 == a[1] - b[1]
        b1 == IF d1 < 0 THEN 1 ELSE 0
        d2 == a[2] - b[2] - b1
        b2 == IF d2 < 0 THEN 1 ELSE 0
        d3 == a[3] - b[3] - b2
        b3 == IF d3 < 0 THEN 1 ELSE 0
    IN  <<d1 + b1 * Limb, d2 + b2 * Limb, d3 + b3 * Limb, a[4] - b[4] - b3>>

\* -1, 0 or 1 as a < b, a = b or a > b
MagCmp(a, b) ==
    CASE a[4] # b[4] -> IF a[4] < b[4] THEN -1 ELSE 1
      [] a[4] = b[4] /\ a[3] # b[3] -> IF a[3] < b[3] THEN -1 ELSE 1
      [] a[4] = b[4] /\ a[3] = b[3] /\ a[2] # b[2] -> IF a[2] < b[2] THEN -1 ELSE 1
      [] a[4] = b[4] /\ a[3] = b[3] /\ a[2] = b[2] /\ a[1] # b[1] ->
            IF a[1] < b[1] THEN -1 ELSE 1
      [] OTHER -> 0

\* the number of bits of n
RECURSIVE BitLen(_)
BitLen(n) == IF n = 0 THEN 0 ELSE 1 + BitLen(n \div 2)

MagBitLen(m) ==
    CASE m[4] > 0 -> 60 + BitLen(m[4])
      [] m[4] = 0 /\ m[3] > 0 -> 40 + BitLen(m[3])
      [] m[4] = 0 /\ m[3] = 0 /\ m[2] > 0 -> 20 + BitLen(m[2])
      [] OTHER -> BitLen(m[1])

\* bit i (from 0) of the magnitude
MagBit(m, i) == (m[(i \div 20) + 1] \div (2^(i % 20))) % 2

\* the magnitude rounded to 53 significant bits, to nearest, ties to even;
\* sticky says that the exact value lies above m by less than one unit
RoundMag(m, sticky) ==
    LET len == MagBitLen(m)
        drop == len - 53
        low == m[1] % (2^drop)
        half == 2^(drop - 1)
        up == low > half \/ (low = half /\ (sticky \/ MagBit(m, drop) = 1))
    IN  IF len <= 53
        THEN m
        ELSE Carry(<<m[1] - low + (IF up THEN 2^drop ELSE 0), m[2], m[3], m[4]>>)

\* float64(a) / float64(b) of two ints: long division, limb by limb, then rounding;
\* x/0 is an infinity and 0/0 is NaN
FloatDiv(a, b) ==
    LET n == AbsInt(a)
        d == AbsInt(b)
        q4 == n \div d
        r4 == n % d
        q3 == (r4 * Limb) \div d
        r3 == (r4 * Limb) % d
        q2 == (r3 * Limb) \div d
        r2 == (r3 * Limb) % d
        q1 == (r2 * Limb) \div d
        r1 == (r2 * Limb) % d
    IN  CASE b = 0 /\ a = 0 -> NaN
          [] b = 0 /\ a # 0 -> Inf(IF a < 0 THEN -1 ELSE 1)
          [] OTHER -> Num(IF (a < 0) # (b < 0) /\ a # 0 THEN -1 ELSE 1,
                          RoundMag(<<q1, q2, q3, q4>>, r1 # 0))

\* x + y
FloatAdd(x, y) ==
    CASE x.k = "nan" \/ y.k = "nan" -> NaN
      [] x.k = "inf" /\ y.k = "inf" -> IF x.s = y.s THEN x ELSE NaN
      [] x.k = "inf" /\ y.k = "num" -> x
      [] x.k = "num" /\ y.k = "inf" -> y
      [] OTHER ->
            IF x.s = y.s
            THEN Num(x.s, RoundMag(MagAdd(x.m, y.m), FALSE))
            ELSE CASE MagCmp(x.m, y.m) = 0 -> Num(1, <<0, 0, 0, 0>>)
                   [] MagCmp(x.m, y.m) > 0 -> Num(x.s, RoundMag(MagSub(x.m, y.m), FALSE))
                   [] OTHER -> Num(y.s, RoundMag(MagSub(y.m, x.m), FALSE))

\* c * float64(n) for a finite c >= 0 and an int 0 <= n < 2^11
FloatMulInt(c, n) ==
    Num(1, RoundMag(Carry(<<c.m[1] * n, c.m[2] * n, c.m[3] * n, c.m[4] * n>>), FALSE))

\* x < y for finite x and y
FloatLess(x, y) ==
    CASE IsZeroMag(x.m) /\ IsZeroMag(y.m) -> FALSE
      [] x.s # y.s -> x.s < y.s
      [] x.s = 1 -> MagCmp(x.m, y.m) < 0
      [] OTHER -> MagCmp(x.m, y.m) > 0

\* math.Min(x, y) and math.Max(x, y); NaN if either is NaN
FloatMin(x, y) ==
    CASE x.k = "nan" \/ y.k = "nan" -> NaN
      [] x.k = "inf" /\ y.k # "nan" -> IF x.s < 0 THEN x ELSE y
      [] x.k = "num" /\ y.k = "inf" -> IF y.s < 0 THEN y ELSE x
      [] OTHER -> IF FloatLess(y, x) THEN y ELSE x

FloatMax(x, y) ==
    CASE x.k = "nan" \/ y.k = "nan" -> NaN
      [] x.k = "inf" /\ y.k # "nan" -> IF x.s > 0 THEN x ELSE y
      [] x.k = "num" /\ y.k = "inf" -> IF y.s > 0 THEN y ELSE x
      [] OTHER -> IF FloatLess(x, y) THEN y ELSE x

\* int(x): the fraction is discarded (truncation toward zero).  Go leaves the
\* conversion of NaN and of the infinities to the implementation; the amd64
\* build yields the most negative int, which stands here as -(2^30).
FloatToInt(x) == IF x.k = "num" THEN x.s * x.m[4] ELSE -(2^30)

-----------------------------------------------------------------------------
(* The sample grid. *)

\* pbm.data[y][x], pgm.data[y][x], ppm.data[y][x]
At(g, x, y) == g.data[y + 1][x + 1]

\* data[y][x] = v
SetCell(data, x, y, v) == [data EXCEPT ![y + 1] = [@ EXCEPT ![x + 1] = v]]

\* make([][]T, rows) with every row make([]T, cols): the zero value everywhere
MakeData(rows, cols, zero) == [y \in 1..rows |-> [x \in 1..cols |-> zero]]

ZeroPixel == [R |-> 0, G |-> 0, B |-> 0]

-----------------------------------------------------------------------------
(* Invert. *)

PBM_Invert(g) ==
    [g EXCEPT !.data = [y \in 1..g.height |-> [x \in 1..g.width |-> ~g.data[y][x]]]]

PPM_Invert(g) ==
    [g EXCEPT !.data = [y \in 1..g.height |-> [x \in 1..g.width |->
        [R |-> Uint8(g.max - g.data[y][x].R),
         G |-> Uint8(g.max - g.data[y][x].G),
         B |-> Uint8(g.max - g.data[y][x].B)]]]]

\* (mutant of PGM_Invert) a subtraction that saturates at 0 instead of wrapping
PGM_InvertSaturating(g) ==
    [g EXCEPT !.data = [y \in 1..g.height |-> [x \in 1..g.width |->
        IF g.data[y][x] > Uint8(g.max) THEN 0 ELSE Uint8(g.max) - g.data[y][x]]]]

PGM_Invert(g) ==
    [g EXCEPT !.data = [y \in 1..g.height |-> [x \in 1..g.width |->
        Uint8(Uint8(g.max) - g.data[y][x])]]]

-----------------------------------------------------------------------------
(* Flip (horizontal mirror) and Flop (vertical mirror). *)

\* (mutant of SwapCells) two assignments in sequence, without a temporary:
\* the second one reads the cell the first has overwritten
SwapCellsSequential(data, xa, ya, xb, yb) ==
    SetCell(data, xa, ya, data[yb + 1][xb + 1])

\* the tuple assignment data[ya][xa], data[yb][xb] = data[yb][xb], data[ya][xa]
SwapCells(data, xa, ya, xb, yb) ==
    SetCell(SetCell(data, xa, ya, data[yb + 1][xb + 1]), xb, yb, data[ya + 1][xa + 1])

\* the inner loop of Flip: for x := x; x < width/2; x++ { swap (x, y), (width-x-1, y) }
RECURSIVE FlipRowLoop(_, _, _, _)
FlipRowLoop(data, width, y, x) ==
    IF x < width \div 2
    THEN FlipRowLoop(SwapCells(data, x, y, width - x - 1, y), width, y, x + 1)
    ELSE data

\* the outer loop of Flip: for y := y; y < height; y++
RECURSIVE FlipLoop(_, _, _, _)
FlipLoop(data, width, height, y) ==
    IF y < height
    THEN FlipLoop(FlipRowLoop(data, width, y, 0), width, height, y + 1)
    ELSE data

PBM_Flip(g) == [g EXCEPT !.data = FlipLoop(g.data, g.width, g.height, 0)]

PPM_Flip(g) == [g EXCEPT !.data = FlipLoop(g.data, g.width, g.height, 0)]

PGM_Flip(g) == [g EXCEPT !.data = FlipLoop(g.data, g.width, g.height, 0)]

\* PBM.Flop: for x < width { for y < height/2 { swap (x, y), (x, height-y-1) } }
RECURSIVE PBM_FlopColLoop(_, _, _, _)
PBM_FlopColLoop(data, height, x, y) ==
    IF y < height \div 2
    THEN PBM_FlopColLoop(SwapCells(data, x, y, x, height - y - 1), height, x, y + 1)
    ELSE data

RECURSIVE PBM_FlopLoop(_, _, _, _)
PBM_FlopLoop(data, width, height, x) ==
    IF x < width
    THEN PBM_FlopLoop(PBM_FlopColLoop(data, height, x, 0), width, height, x + 1)
    ELSE data

PBM_Flop(g) == [g EXCEPT !.data = PBM_FlopLoop(g.data, g.width, g.height, 0)]

\* PPM.Flop: for i < height/2 { data[i], data[height-1-i] = data[height-1-i], data[i] }
RECURSIVE PPM_FlopLoop(_, _, _)
PPM_FlopLoop(data, height, i) ==
    IF i < height \div 2
    THEN PPM_FlopLoop([data EXCEPT ![i + 1] = data[height - i],
                                   ![height - i] = data[i + 1]], height, i + 1)
    ELSE data

PPM_Flop(g) == [g EXCEPT !.data = PPM_FlopLoop(g.data, g.height, 0)]

\* PGM.Flop: for i < height/2 { for j < width { swap (j, i), (j, height-i-1) } }
RECURSIVE PGM_FlopRowLoop(_, _, _, _, _)
PGM_FlopRowLoop(data, width, height, i, j) ==
    IF j < width
    THEN PGM_FlopRowLoop(SwapCells(data, j, i, j, height - i - 1), width, height, i, j + 1)
    ELSE data

RECURSIVE PGM_FlopLoop(_, _, _, _)
PGM_FlopLoop(data, width, height, i) ==
    IF i < height \div 2
    THEN PGM_FlopLoop(PGM_FlopRowLoop(data, width, height, i, 0), width, height, i + 1)
    ELSE data

PGM_Flop(g) == [g EXCEPT !.data = PGM_FlopLoop(g.data, g.width, g.height, 0)]

-----------------------------------------------------------------------------
(* Rotate90CW. *)

\* PPM: newData[j][height-1-i] = data[i][j], then width and height are swapped
PPM_Rotate90CW(g) ==
    [g EXCEPT !.data = [r \in 1..g.width |-> [c \in 1..g.height |->
                            g.data[g.height - c + 1][r]]],
              !.width = g.height,
              !.height = g.width]

\* (mutant of PGM_Rotate90CW) a rotation the other way round:
\* rotatedData[i][j] = data[j][width-i-1]
PGM_Rotate90CCW(g) ==
    [g EXCEPT !.data = [i \in 1..g.width |-> [j \in 1..g.height |->
                            g.data[j][g.width - i + 1]]],
              !.width = g.height,
              !.height = g.width]

\* PGM: rotatedData[i][j] = data[height-j-1][i], then width and height are swapped
PGM_Rotate90CW(g) ==
    [g EXCEPT !.data = [i \in 1..g.width |-> [j \in 1..g.height |->
                            g.data[g.height - j + 1][i]]],
              !.width = g.height,
              !.height = g.width]

-----------------------------------------------------------------------------
(* The setters. *)

SetMagicNumber(g, magicNumber) == [g EXCEPT !.magicNumber = magicNumber]

\* PPM.SetMaxValue takes a uint8, PGM.SetMaxValue a uint
SetMaxValue(g, maxValue) == [g EXCEPT !.max = maxValue]

\* PGM.Set and PPM.Set: data[y][x] = value
Set(g, x, y, value) == [g EXCEPT !.data = SetCell(g.data, x, y, value)]

-----------------------------------------------------------------------------
(* The rasterizer.  A drawing operation is the sequence of ppm.Set calls it *)
(* makes, in the order it makes them; ApplySets then runs them on a grid.   *)

Point(x, y) == [X |-> x, Y |-> y]

\* the loop of DrawLine: for i := i; i <= steps; i++ { Set(int(x), int(y)); x += ...; y += ... }
RECURSIVE DrawLineLoop(_, _, _, _, _, _)
DrawLineLoop(x, y, xIncrement, yIncrement, i, steps) ==
    IF i <= steps
    THEN <<Point(FloatToInt(x), FloatToInt(y))>> \o
         DrawLineLoop(FloatAdd(x, xIncrement), FloatAdd(y, yIncrement),
                      xIncrement, yIncrement, i + 1, steps)
    ELSE <<>>

DrawLine(p1, p2) ==
    LET deltaX == p2.X - p1.X
        deltaY == p2.Y - p1.Y
        steps == Max2(AbsInt(deltaX), AbsInt(deltaY))
    IN  DrawLineLoop(FromInt(p1.X), FromInt(p1.Y),
                     FloatDiv(deltaX, steps), FloatDiv(deltaY, steps), 0, steps)

DrawRectangle(p1, width, height) ==
    LET p2 == Point(p1.X + width, p1.Y)
        p3 == Point(p1.X + width, p1.Y + height)
        p4 == Point(p1.X, p1.Y + height)
    IN  DrawLine(p1, p2) \o DrawLine(p2, p3) \o DrawLine(p3, p4) \o DrawLine(p4, p1)

\* for i < height { for j < width { Set(p1.X+j, p1.Y+i) } }
RECURSIVE DrawFilledRectangleLoop(_, _, _, _, _)
DrawFilledRectangleLoop(p1, width, height, i, j) ==
    CASE i >= height -> <<>>
      [] i < height /\ j >= width -> DrawFilledRectangleLoop(p1, width, height, i + 1, 0)
      [] OTHER -> <<Point(p1.X + j, p1.Y + i)>> \o
                  DrawFilledRectangleLoop(p1, width, height, i, j + 1)

DrawFilledRectangle(p1, width, height) == DrawFilledRectangleLoop(p1, width, height, 0, 0)

\* for x := -radius; x <= radius { for y := -radius; y <= radius { if x*x+y*y <= radius*radius ... } }
RECURSIVE DrawCircleLoop(_, _, _, _)
DrawCircleLoop(center, radius, x, y) ==
    CASE x > radius -> <<>>
      [] x <= radius /\ y > radius -> DrawCircleLoop(center, radius, x + 1, -radius)
      [] OTHER -> (IF x * x + y * y <= radius * radius
                   THEN <<Point(center.X + x, center.Y + y)>>
                   ELSE <<>>) \o DrawCircleLoop(center, radius, x, y + 1)

DrawCircle(center, radius) == DrawCircleLoop(center, radius, -radius, -radius)

DrawFilledCircle(center, radius) == DrawCircleLoop(center, radius, -radius, -radius)

DrawTriangle(p1, p2, p3) == DrawLine(p1, p2) \o DrawLine(p2, p3) \o DrawLine(p3, p1)

\* sort.Slice by Y on three vertices: an insertion sort (slices shorter than 12),
\* which leaves vertices of equal Y in their order
SortByY(vertices) ==
    LET a == vertices[1]
        b == vertices[2]
        c == vertices[3]
        two == IF b.Y < a.Y THEN <<b, a>> ELSE <<a, b>>
    IN  CASE c.Y < two[1].Y -> <<c, two[1], two[2]>>
          [] c.Y >= two[1].Y /\ c.Y < two[2].Y -> <<two[1], c, two[2]>>
          [] OTHER -> <<two[1], two[2], c>>

\* for x := int(math.Min(x1, x2)); x <= int(math.Max(x1, x2)); x++ { Set(x, y) }
RECURSIVE SpanLoop(_, _, _)
SpanLoop(x, last, y) ==
    IF x <= last THEN <<Point(x, y)>> \o SpanLoop(x + 1, last, y) ELSE <<>>

Span(x1, x2, y) == SpanLoop(FloatToInt(FloatMin(x1, x2)), FloatToInt(FloatMax(x1, x2)), y)

\* the second loop of DrawFilledTriangle: for y := y; y <= yLast; y++ { span; x1 += slope3; x2 += slope2 }
RECURSIVE LowerLoop(_, _, _, _, _, _)
LowerLoop(y, yLast, x1, x2, slope3, slope2) ==
    IF y <= yLast
    THEN Span(x1, x2, y) \o
         LowerLoop(y + 1, yLast, FloatAdd(x1, slope3), FloatAdd(x2, slope2), slope3, slope2)
    ELSE <<>>

\* the first loop of DrawFilledTriangle, followed by the second, which goes on
\* from the x2 the first one ends with and restarts x1 at the middle vertex
RECURSIVE UpperLoop(_, _, _, _, _)
UpperLoop(vertices, y, x1, x2, slopes) ==
    IF y <= vertices[2].Y
    THEN Span(x1, x2, y) \o
         UpperLoop(vertices, y + 1, FloatAdd(x1, slopes[1]), FloatAdd(x2, slopes[2]), slopes)
    ELSE LowerLoop(vertices[2].Y + 1, vertices[3].Y, FromInt(vertices[2].X), x2,
                   slopes[3], slopes[2])

DrawFilledTriangle(p1, p2, p3) ==
    LET vertices == SortByY(<<p1, p2, p3>>)
        slope1 == FloatDiv(vertices[2].X - vertices[1].X, vertices[2].Y - vertices[1].Y)
        slope2 == FloatDiv(vertices[3].X - vertices[1].X, vertices[3].Y - vertices[1].Y)
        slope3 == FloatDiv(vertices[3].X - vertices[2].X, vertices[3].Y - vertices[2].Y)
    IN  UpperLoop(vertices, vertices[1].Y, FromInt(vertices[1].X), FromInt(vertices[1].X),
                  <<slope1, slope2, slope3>>)

\* for i < len(points) { DrawLine(points[i], points[(i+1)%len(points)]) }
RECURSIVE DrawPolygonLoop(_, _)
DrawPolygonLoop(points, i) ==
    IF i < Len(points)
    THEN DrawLine(points[i + 1], points[((i + 1) % Len(points)) + 1]) \o
         DrawPolygonLoop(points, i + 1)
    ELSE <<>>

DrawPolygon(points) == DrawPolygonLoop(points, 0)

\* the bounding box of the vertices
RECURSIVE BoundsLoop(_, _, _)
BoundsLoop(points, i, box) ==
    IF i <= Len(points)
    THEN BoundsLoop(points, i + 1,
                    [minX |-> Min2(box.minX, points[i].X), maxX |-> Max2(box.maxX, points[i].X),
                     minY |-> Min2(box.minY, points[i].Y), maxY |-> Max2(box.maxY, points[i].Y)])
    ELSE box

BoundingBox(points) ==
    BoundsLoop(points, 1, [minX |-> points[1].X, maxX |-> points[1].X,
                           minY |-> points[1].Y, maxY |-> points[1].Y])

\* xIntersection of the edge p1-p2 at row y
XIntersection(p1, p2, y, yMin) ==
    FloatToInt(FloatAdd(FromInt(p1.X), FloatDiv((y - yMin) * (p2.X - p1.X), p2.Y - p1.Y)))

\* for y := y; y <= yMax; y++ { intersections[y-minY] = xIntersection }
RECURSIVE EdgeLoop(_, _, _, _, _, _, _)
EdgeLoop(intersections, p1, p2, y, yMin, yMax, minY) ==
    IF y <= yMax
    THEN EdgeLoop([intersections EXCEPT ![y - minY + 1] = XIntersection(p1, p2, y, yMin)],
                  p1, p2, y + 1, yMin, yMax, minY)
    ELSE intersections

\* the loop over the edges; horizontal ones are skipped
RECURSIVE EdgesLoop(_, _, _, _)
EdgesLoop(intersections, points, i, minY) ==
    IF i < Len(points)
    THEN LET p1 == points[i + 1]
             p2 == points[((i + 1) % Len(points)) + 1]
             yMin == Min2(p1.Y, p2.Y)
             yMax == Max2(p1.Y, p2.Y)
         IN  EdgesLoop(IF yMin = yMax
                       THEN intersections
                       ELSE EdgeLoop(intersections, p1, p2, yMin, yMin, yMax, minY),
                       points, i + 1, minY)
    ELSE intersections

Intersections(points) ==
    LET box == BoundingBox(points)
    IN  EdgesLoop([y \in 1..(box.maxY - box.minY + 1) |-> 0], points, 0, box.minY)

\* for y <= maxY-minY { if intersections[y] == 0 { continue }; for x := intersections[y]; x <= maxX-minX ... }
RECURSIVE FillLoop(_, _, _)
FillLoop(intersections, box, y) ==
    IF y <= box.maxY - box.minY
    THEN (IF intersections[y + 1] = 0
          THEN <<>>
          ELSE [i \in 1..Max2(0, box.maxX - box.minX - intersections[y + 1] + 1) |->
                    Point(intersections[y + 1] + (i - 1) + box.minX, y + box.minY)])
         \o FillLoop(intersections, box, y + 1)
    ELSE <<>>

DrawFilledPolygon(points) == FillLoop(Intersections(points), BoundingBox(points), 0)

\* ppm.Set(x, y, color) on data: data[y][x] = color, a panic when y or x is no index
InRange(data, x, y) ==
    /\ 0 <= y
    /\ y < Len(data)
    /\ 0 <= x
    /\ x < Len(data[y + 1])

\* the Set calls of a drawing operation, one after the other, until one panics
RECURSIVE ApplySets(_, _, _, _)
ApplySets(data, pts, i, color) ==
    CASE i > Len(pts) -> [data |-> data, fault |-> FALSE]
      [] i <= Len(pts) /\ ~InRange(data, pts[i].X, pts[i].Y) -> [data |-> data, fault |-> TRUE]
      [] OTHER -> ApplySets(SetCell(data, pts[i].X, pts[i].Y, color), pts, i + 1, color)

-----------------------------------------------------------------------------
(* The depth conversions.  The sums are evaluated left to right, each       *)
(* product and each sum rounded on its own (no fused multiply-add).         *)

\* the float64 constants 0.299, 0.587 and 0.114, in units of 2^-60
Weight299 == Num(1, <<25152, 234881, 313524, 0>>)

Weight587 == Num(1, <<536832, 117440, 615514, 0>>)

Weight114 == Num(1, <<486544, 696254, 119537, 0>>)

\* 0.299*float64(R) + 0.587*float64(G) + 0.114*float64(B)
Luminosity(p) ==
    FloatAdd(FloatAdd(FloatMulInt(Weight299, p.R), FloatMulInt(Weight587, p.G)),
             FloatMulInt(Weight114, p.B))

\* PPM.ToPGM: the luminosity of every pixel, converted to uint8
PPM_ToPGM(g) ==
    [data |-> [y \in 1..g.height |-> [x \in 1..g.width |->
                  Uint8(FloatToInt(Luminosity(g.data[y][x])))]],
     width |-> g.width,
     height |-> g.height,
     magicNumber |-> "P2",
     max |-> g.max]

\* PPM.ToPBM: grayValue > 128, on the float64 grayValue
PPM_ToPBM(g) ==
    [data |-> [y \in 1..g.height |-> [x \in 1..g.width |->
                  FloatLess(FromInt(128), Luminosity(g.data[y][x]))]],
     width |-> g.width,
     height |-> g.height,
     magicNumber |-> "P1"]

\* PGM.ToPBM: uint16(sample) > uint16(max)/2
PGM_ToPBM(g) ==
    [data |-> [y \in 1..g.height |-> [x \in 1..g.width |->
                  Uint16(g.data[y][x]) > Uint16(g.max) \div 2]],
     width |-> g.width,
     height |-> g.height,
     magicNumber |-> "P4"]

-----------------------------------------------------------------------------
(* The codecs.  A file is the sequence of its bytes; text is its ASCII      *)
(* codes.                                                                    *)

NL == 10

SP == 32

IsSpace(b) == b \in {9, 10, 11, 12, 13, 32}

IsDigit(b) == 48 <= b /\ b <= 57

Magics == {"P1", "P2", "P3", "P4", "P5", "P6"}

\* the bytes of a magic number
MagicBytes(m) ==
    CASE m = "P1" -> <<80, 49>>
      [] m = "P2" -> <<80, 50>>
      [] m = "P3" -> <<80, 51>>
      [] m = "P4" -> <<80, 52>>
      [] m = "P5" -> <<80, 53>>
      [] m = "P6" -> <<80, 54>>

\* the string of the bytes of a token read as a magic number ("" stands for
\* every string that is none of the six magic numbers)
MagicString(b) ==
    IF \E m \in Magics : MagicBytes(m) = b
    THEN CHOOSE m \in Magics : MagicBytes(m) = b
    ELSE ""

\* fmt's %d of a non-negative integer
RECURSIVE FormatInt(_)
FormatInt(n) == IF n < 10 THEN <<48 + n>> ELSE FormatInt(n \div 10) \o <<48 + (n % 10)>>

\* the concatenation of a sequence of byte sequences
RECURSIVE Concat(_)
Concat(ss) == IF ss = <<>> THEN <<>> ELSE Head(ss) \o Concat(Tail(ss))

\* "%s\n%d %d\n" (PBM) and "%s\n%d %d\n%d\n" (PGM, PPM)
PBMHeader(g) ==
    MagicBytes(g.magicNumber) \o <<NL>> \o FormatInt(g.width) \o <<SP>>
        \o FormatInt(g.height) \o <<NL>>

MaxHeader(g) ==
    MagicBytes(g.magicNumber) \o <<NL>> \o FormatInt(g.width) \o <<SP>>
        \o FormatInt(g.height) \o <<NL>> \o FormatInt(g.max) \o <<NL>>

\* a P1 row: "1 " or "0 " for every pixel, then a newline
P1Row(row, width) ==
    Concat([x \in 1..width |-> IF row[x] THEN <<49, SP>> ELSE <<48, SP>>]) \o <<NL>>

\* the byte of a P4 row that holds the pixels x .. x+7 (those below width):
\* currentByte |= bit << (7 - x%8), written out when (x+1)%8 == 0 or x == width-1
RECURSIVE P4Byte(_, _, _, _)
P4Byte(row, width, x, currentByte) ==
    LET bitIndex == 7 - (x % 8)
        bitValue == IF row[x + 1] THEN 1 ELSE 0
        next == currentByte + bitValue * (2^bitIndex)
    IN  IF (x + 1) % 8 = 0 \/ x = width - 1
        THEN next
        ELSE P4Byte(row, width, x + 1, next)

P4Row(row, width) == [b \in 1..((width + 7) \div 8) |-> P4Byte(row, width, 8 * (b - 1), 0)]

\* PBM.Save: the bytes written to the file (no pixel data for another magic number)
PBM_Save(g) ==
    PBMHeader(g) \o
    (CASE g.magicNumber = "P1" -> Concat([y \in 1..g.height |-> P1Row(g.data[y], g.width)])
       [] g.magicNumber = "P4" -> Concat([y \in 1..g.height |-> P4Row(g.data[y], g.width)])
       [] OTHER -> <<>>)

\* PGM.Save: "%d " for every sample, a newline after every row
PGM_Save(g) ==
    MaxHeader(g) \o
    Concat([y \in 1..g.height |->
        Concat([x \in 1..g.width |-> FormatInt(g.data[y][x]) \o <<SP>>]) \o <<NL>>])

\* PPM.Save: "%d %d %d " for every pixel, a newline after every row
PPM_Save(g) ==
    MaxHeader(g) \o
    Concat([y \in 1..g.height |->
        Concat([x \in 1..g.width |->
            FormatInt(g.data[y][x].R) \o <<SP>> \o FormatInt(g.data[y][x].G) \o <<SP>>
                \o FormatInt(g.data[y][x].B) \o <<SP>>]) \o <<NL>>])

(* Text helpers of the readers. *)

\* strings.TrimSpace
RECURSIVE TrimLeft(_)
TrimLeft(b) == IF b # <<>> /\ IsSpace(Head(b)) THEN TrimLeft(Tail(b)) ELSE b

RECURSIVE TrimRight(_)
TrimRight(b) ==
    IF b # <<>> /\ IsSpace(b[Len(b)]) THEN TrimRight(SubSeq(b, 1, Len(b) - 1)) ELSE b

TrimSpace(b) == TrimRight(TrimLeft(b))

\* strings.Fields: the maximal runs of non-space bytes
RECURSIVE FieldsLoop(_, _, _, _)
FieldsLoop(b, i, cur, acc) ==
    CASE i > Len(b) -> IF cur = <<>> THEN acc ELSE Append(acc, cur)
      [] i <= Len(b) /\ IsSpace(b[i]) ->
            FieldsLoop(b, i + 1, <<>>, IF cur = <<>> THEN acc ELSE Append(acc, cur))
      [] OTHER -> FieldsLoop(b, i + 1, Append(cur, b[i]), acc)

Fields(b) == FieldsLoop(b, 1, <<>>, <<>>)

\* strings.Split(b, " "): the pieces between single spaces, empty ones included
RECURSIVE SplitLoop(_, _, _, _)
SplitLoop(b, i, cur, acc) ==
    CASE i > Len(b) -> Append(acc, cur)
      [] i <= Len(b) /\ b[i] = SP -> SplitLoop(b, i + 1, <<>>, Append(acc, cur))
      [] OTHER -> SplitLoop(b, i + 1, Append(cur, b[i]), acc)

SplitSpace(b) == SplitLoop(b, 1, <<>>, <<>>)

AllDigits(b) == b # <<>> /\ \A i \in 1..Len(b) : IsDigit(b[i])

RECURSIVE DigitsValue(_)
DigitsValue(b) ==
    IF b = <<>> THEN 0 ELSE 10 * DigitsValue(SubSeq(b, 1, Len(b) - 1)) + (b[Len(b)] - 48)

\* strconv.Atoi: an optional sign and decimal digits; 0 and an error otherwise
Atoi(b) ==
    LET signed == b # <<>> /\ b[1] \in {43, 45}
        digits == IF signed THEN Tail(b) ELSE b
    IN  IF AllDigits(digits)
        THEN [ok |-> TRUE,
              val |-> IF signed /\ b[1] = 45 THEN -DigitsValue(digits) ELSE DigitsValue(digits)]
        ELSE [ok |-> FALSE, val |-> 0]

\* strconv.ParseUint(b, 10, 8): decimal digits; 0 and an error for another
\* text, 255 and an error for a value above 255
ParseUint8(b) ==
    CASE ~AllDigits(b) -> [ok |-> FALSE, val |-> 0]
      [] AllDigits(b) /\ DigitsValue(b) > 255 -> [ok |-> FALSE, val |-> 255]
      [] OTHER -> [ok |-> TRUE, val |-> DigitsValue(b)]

(* bufio.Reader over the file s, as ReadPBM uses it.  A reader is            *)
(* [pos, end]: the bytes s[pos+1 .. end] are in its buffer and the file is  *)
(* read up to end.  A file hands over every byte asked for, up to its end.  *)

\* the size of the buffer of bufio.NewReader
BufSize == 4096

NewReader == [pos |-> 0, end |-> 0]

\* the index of the first newline in s[i .. to], 0 if there is none
RECURSIVE IndexNewline(_, _, _)
IndexNewline(s, i, to) ==
    CASE i > to -> 0
      [] i <= to /\ s[i] = NL -> i
      [] OTHER -> IndexNewline(s, i + 1, to)

\* reader.ReadString('\n') for a line that starts after byte start: the buffer
\* is searched, and refilled while it holds no newline; a full buffer is taken
\* as a fragment of the line.  At the end of the file the rest is returned with
\* the error io.EOF.
RECURSIVE ReadStringLoop(_, _, _)
ReadStringLoop(s, start, rd) ==
    LET i == IndexNewline(s, rd.pos + 1, rd.end)
    IN  CASE i # 0 ->
                [line |-> SubSeq(s, start + 1, i), err |-> FALSE, rd |-> [rd EXCEPT !.pos = i]]
          [] i = 0 /\ rd.end - rd.pos >= BufSize ->
                ReadStringLoop(s, start, [pos |-> rd.end, end |-> rd.end])
          [] i = 0 /\ rd.end - rd.pos < BufSize /\ rd.end = Len(s) ->
                [line |-> SubSeq(s, start + 1, Len(s)), err |-> TRUE,
                 rd |-> [pos |-> rd.end, end |-> rd.end]]
          [] OTHER ->
                ReadStringLoop(s, start,
                    [rd EXCEPT !.end = Min2(Len(s), rd.end + BufSize - (rd.end - rd.pos))])

ReadString(s, rd) == ReadStringLoop(s, rd.pos, rd)

\* reader.Read(p) with len(p) = n: the bytes of the buffer, at most n of them;
\* an empty buffer is first filled by one read of the file (a read of BufSize
\* bytes or more goes to p directly).  n is the number of bytes read and eof
\* says that bytes were asked for and there were none.
Read(s, rd, n) ==
    LET filled ==
            CASE rd.pos < rd.end \/ n = 0 -> rd
              [] rd.pos = rd.end /\ n >= BufSize ->
                    [pos |-> rd.end, end |-> Min2(Len(s), rd.end + n)]
              [] OTHER -> [pos |-> rd.end, end |-> Min2(Len(s), rd.end + BufSize)]
        got == Min2(n, filled.end - filled.pos)
    IN  [n |-> got, eof |-> n > 0 /\ got = 0, from |-> filled.pos,
         rd |-> [filled EXCEPT !.pos = filled.pos + got]]

(* ReadPBM. *)

Error == [status |-> "error"]

Panic == [status |-> "panic"]

Ok(g) == [status |-> "ok", grid |-> g]

\* fmt.Sscanf(dims, "%d %d", &width, &height) on the trimmed line: two numbers
\* with spaces between them; what follows the second is not read
ScanDimensions(b) ==
    LET fields == Fields(b)
        second == IF Len(fields) >= 2 THEN fields[2] ELSE <<>>
        digits == {n \in 1..Len(second) : \A i \in 1..n : IsDigit(second[i])}
        last == IF digits = {} THEN 0 ELSE CHOOSE n \in digits : \A m \in digits : m <= n
    IN  IF Len(fields) >= 2 /\ Atoi(fields[1]).ok /\ last > 0
        THEN [ok |-> TRUE, width |-> Atoi(fields[1]).val,
              height |-> DigitsValue(SubSeq(second, 1, last))]
        ELSE [ok |-> FALSE, width |-> 0, height |-> 0]

\* for x, field := range fields { if x >= width { error }; data[y][x] = field == "1" }
RECURSIVE P1FieldsLoop(_, _, _, _)
P1FieldsLoop(row, fields, x, width) ==
    CASE x >= Len(fields) -> [ok |-> TRUE, row |-> row]
      [] x < Len(fields) /\ x >= width -> [ok |-> FALSE, row |-> row]
      [] OTHER -> P1FieldsLoop([row EXCEPT ![x + 1] = (fields[x + 1] = <<49>>)],
                               fields, x + 1, width)

\* the P1 loop over the rows: a line is read for each
RECURSIVE P1RowsLoop(_, _, _, _, _, _)
P1RowsLoop(s, rd, data, y, width, height) ==
    IF y >= height
    THEN [ok |-> TRUE, data |-> data]
    ELSE LET r == ReadString(s, rd)
             f == P1FieldsLoop(data[y + 1], Fields(r.line), 0, width)
         IN  CASE r.err -> [ok |-> FALSE, data |-> data]
               [] ~r.err /\ ~f.ok -> [ok |-> FALSE, data |-> data]
               [] OTHER -> P1RowsLoop(s, r.rd, [data EXCEPT ![y + 1] = f.row],
                                      y + 1, width, height)

\* the pixels of a P4 row whose bytes start after byte from of the file:
\* bit 7 - x%8 of byte x/8
P4Pixels(s, from, width) ==
    [x \in 1..width |->
        (s[from + ((x - 1) \div 8) + 1] \div (2^(7 - ((x - 1) % 8)))) % 2 # 0]

\* the P4 loop over the rows: expectedBytesPerRow bytes are read for each, and
\* fewer bytes than that are an error
RECURSIVE P4RowsLoop(_, _, _, _, _, _)
P4RowsLoop(s, rd, data, y, width, height) ==
    IF y >= height
    THEN [ok |-> TRUE, data |-> data]
    ELSE LET expectedBytesPerRow == (width + 7) \div 8
             r == Read(s, rd, expectedBytesPerRow)
         IN  CASE r.eof -> [ok |-> FALSE, data |-> data]
               [] ~r.eof /\ r.n < expectedBytesPerRow -> [ok |-> FALSE, data |-> data]
               [] OTHER -> P4RowsLoop(s, r.rd,
                                      [data EXCEPT ![y + 1] = P4Pixels(s, r.from, width)],
                                      y + 1, width, height)

ReadPBM(s) ==
    LET m == ReadString(s, NewReader)
        magicNumber == MagicString(TrimSpace(m.line))
        d == ReadString(s, m.rd)
        dims == ScanDimensions(TrimSpace(d.line))
        data == MakeData(dims.height, dims.width, FALSE)
        rows == IF magicNumber = "P1"
                THEN P1RowsLoop(s, d.rd, data, 0, dims.width, dims.height)
                ELSE P4RowsLoop(s, d.rd, data, 0, dims.width, dims.height)
    IN  CASE m.err -> Error
          [] ~m.err /\ magicNumber \notin {"P1", "P4"} -> Error
          [] ~m.err /\ magicNumber \in {"P1", "P4"} /\ d.err -> Error
          [] ~m.err /\ magicNumber \in {"P1", "P4"} /\ ~d.err /\ ~dims.ok -> Error
          [] ~m.err /\ magicNumber \in {"P1", "P4"} /\ ~d.err /\ dims.ok
                /\ dims.height > 0 /\ dims.width < 0 -> Panic
          [] OTHER ->
                IF rows.ok
                THEN Ok([data |-> rows.data, width |-> dims.width, height |-> dims.height,
                         magicNumber |-> magicNumber])
                ELSE Error

(* bufio.Scanner over the file s, as ReadPGM (lines) and ReadPPM (words) use *)
(* it.  A token is [ok, text, pos]: Scan's result, Text() (empty after a    *)
(* failed Scan) and the bytes consumed.  The tokens of this model are far   *)
(* below the scanner's limit of 64 KiB.                                     *)

\* bufio.ScanLines: the line without its newline and without a carriage
\* return before it; the last line need not end in a newline
ScanLine(s, pos) ==
    LET i == IndexNewline(s, pos + 1, Len(s))
        last == IF i = 0 THEN Len(s) ELSE i - 1
        line == SubSeq(s, pos + 1, last)
    IN  IF pos >= Len(s)
        THEN [ok |-> FALSE, text |-> <<>>, pos |-> pos]
        ELSE [ok |-> TRUE,
              text |-> IF line # <<>> /\ line[Len(line)] = 13
                       THEN SubSeq(line, 1, Len(line) - 1)
                       ELSE line,
              pos |-> IF i = 0 THEN Len(s) ELSE i]

\* the index of the first byte in s[i ..] that is a space (want) or is none (~want);
\* Len(s) + 1 if there is none
RECURSIVE IndexSpace(_, _, _)
IndexSpace(s, i, want) ==
    CASE i > Len(s) -> i
      [] i <= Len(s) /\ IsSpace(s[i]) = want -> i
      [] OTHER -> IndexSpace(s, i + 1, want)

\* bufio.ScanWords: the next run of non-space bytes
ScanWord(s, pos) ==
    LET first == IndexSpace(s, pos + 1, FALSE)
        after == IndexSpace(s, first, TRUE)
    IN  IF first > Len(s)
        THEN [ok |-> FALSE, text |-> <<>>, pos |-> Len(s)]
        ELSE [ok |-> TRUE, text |-> SubSeq(s, first, after - 1), pos |-> Min2(after, Len(s))]

(* ReadPGM. *)

\* for j < width { value, err := ParseUint(row[j]); ...; data[i][j] = uint8(value) }
RECURSIVE PGMRowLoop(_, _, _, _)
PGMRowLoop(out, row, j, width) ==
    CASE j >= width -> [status |-> "ok", row |-> out]
      [] j < width /\ j >= Len(row) -> [status |-> "panic", row |-> out]
      [] j < width /\ j < Len(row) /\ ~ParseUint8(row[j + 1]).ok -> [status |-> "error", row |-> out]
      [] OTHER -> PGMRowLoop([out EXCEPT ![j + 1] = Uint8(ParseUint8(row[j + 1]).val)],
                             row, j + 1, width)

\* for i < height { scanner.Scan(); row := strings.Fields(scanner.Text()); ... }
RECURSIVE PGMRowsLoop(_, _, _, _, _, _)
PGMRowsLoop(s, pos, data, i, width, height) ==
    IF i >= height
    THEN [status |-> "ok", data |-> data]
    ELSE LET t == ScanLine(s, pos)
             r == PGMRowLoop([x \in 1..width |-> 0], Fields(t.text), 0, width)
         IN  IF r.status = "ok"
             THEN PGMRowsLoop(s, t.pos, Append(data, r.row), i + 1, width, height)
             ELSE [status |-> r.status, data |-> data]

ReadPGM(s) ==
    LET m == ScanLine(s, 0)
        magicNumber == MagicString(TrimSpace(m.text))
        d == ScanLine(s, m.pos)
        sizeLine == SplitSpace(TrimSpace(d.text))
        width == Atoi(sizeLine[1])
        height == Atoi(sizeLine[2])
        x == ScanLine(s, d.pos)
        maxValue == Atoi(TrimSpace(x.text))
        rows == PGMRowsLoop(s, x.pos, <<>>, 0, width.val, height.val)
    IN  CASE ~width.ok -> Error
          [] width.ok /\ Len(sizeLine) < 2 -> Panic
          [] width.ok /\ Len(sizeLine) >= 2 /\ ~height.ok -> Error
          [] width.ok /\ Len(sizeLine) >= 2 /\ height.ok /\ ~maxValue.ok -> Error
          [] width.ok /\ Len(sizeLine) >= 2 /\ height.ok /\ maxValue.ok
                /\ (height.val < 0 \/ (height.val > 0 /\ width.val < 0)) -> Panic
          [] OTHER ->
                IF rows.status = "ok"
                THEN Ok([data |-> rows.data, width |-> width.val, height |-> height.val,
                         magicNumber |-> magicNumber, max |-> maxValue.val])
                ELSE [status |-> rows.status]

(* ReadPPM. *)

\* the three Scans of a pixel; the errors of ParseUint are dropped
PPMPixel(s, pos) ==
    LET r == ScanWord(s, pos)
        g == ScanWord(s, r.pos)
        b == ScanWord(s, g.pos)
    IN  [pixel |-> [R |-> ParseUint8(r.text).val, G |-> ParseUint8(g.text).val,
                    B |-> ParseUint8(b.text).val],
         pos |-> b.pos]

\* for i < height { for j < width { ... } }
RECURSIVE PPMPixelsLoop(_, _, _, _, _, _, _)
PPMPixelsLoop(s, pos, data, i, j, width, height) ==
    CASE i >= height -> data
      [] i < height /\ j >= width -> PPMPixelsLoop(s, pos, data, i + 1, 0, width, height)
      [] OTHER ->
            LET p == PPMPixel(s, pos)
            IN  PPMPixelsLoop(s, p.pos, SetCell(data, j, i, p.pixel), i, j + 1, width, height)

\* ReadPPM returns no error once the file is open: the results of Scan and the
\* errors of Atoi and ParseUint are dropped
ReadPPM(s) ==
    LET m == ScanWord(s, 0)
        w == ScanWord(s, m.pos)
        h == ScanWord(s, w.pos)
        x == ScanWord(s, h.pos)
        width == Atoi(w.text).val
        height == Atoi(h.text).val
        max == Uint8(Atoi(x.text).val)
    IN  IF height < 0 \/ (height > 0 /\ width < 0)
        THEN Panic
        ELSE Ok([data |-> PPMPixelsLoop(s, x.pos, MakeData(height, width, ZeroPixel),
                                        0, 0, width, height),
                 width |-> width, height |-> height,
                 magicNumber |-> MagicString(m.text), max |-> max])

-----------------------------------------------------------------------------
(* The transform specification: a grid of any kind is constructed, then one *)
(* of Invert, Flip, Flop and Rotate90CW is applied to it repeatedly.        *)

\* the shapes of the grids: every width and height with at most MaxCells cells
Shapes == {s \in (1..MaxCells) \X (1..MaxCells) : s[1] * s[2] <= MaxCells}

\* the gray samples and the pixels the grids are filled with, and their max values
\* (samples above max are included: Invert takes any 8-bit sample)
GraySamples == {7, 200}

PixelSamples == {[R |-> 7, G |-> 200, B |-> 0], [R |-> 255, G |-> 1, B |-> 128]}

PGMMaxValues == {100, 255, 300}

PPMMaxValues == {100, 255}

AllData(w, h, samples) == [1..h -> [1..w -> samples]]

IsShaped(g) ==
    /\ Len(g.data) = g.height
    /\ \A y \in 1..g.height : Len(g.data[y]) = g.width

TransformInit ==
    /\ kind \in {"PBM", "PGM", "PPM"}
    /\ \E s \in Shapes :
         \/ /\ kind = "PBM"
            /\ \E d \in AllData(s[1], s[2], BOOLEAN) :
                 img = [data |-> d, width |-> s[1], height |-> s[2], magicNumber |-> "P1"]
         \/ /\ kind = "PGM"
            /\ \E d \in AllData(s[1], s[2], GraySamples), m \in PGMMaxValues :
                 img = [data |-> d, width |-> s[1], height |-> s[2],
                        magicNumber |-> "P2", max |-> m]
         \/ /\ kind = "PPM"
            /\ \E d \in AllData(s[1], s[2], PixelSamples), m \in PPMMaxValues :
                 img = [data |-> d, width |-> s[1], height |-> s[2],
                        magicNumber |-> "P3", max |-> m]
    /\ orig = img
    /\ hist = <<>>
    /\ stream = <<>>
    /\ result = <<>>
    /\ ref = <<>>
    /\ call = <<>>
    /\ fault = FALSE

\* the operation named op may be applied: the run is not over, and it is a run of op
Repeats(op) ==
    /\ Len(hist) < MaxOps
    /\ \A i \in 1..Len(hist) : hist[i] = op

Invert ==
    /\ Repeats("Invert")
    /\ img' = CASE kind = "PBM" -> PBM_Invert(img)
                [] kind = "PGM" -> PGM_Invert(img)
                [] kind = "PPM" -> PPM_Invert(img)
    /\ hist' = Append(hist, "Invert")
    /\ UNCHANGED <<kind, orig, stream, result, ref, call, fault>>

Flip ==
    /\ Repeats("Flip")
    /\ img' = CASE kind = "PBM" -> PBM_Flip(img)
                [] kind = "PGM" -> PGM_Flip(img)
                [] kind = "PPM" -> PPM_Flip(img)
    /\ hist' = Append(hist, "Flip")
    /\ UNCHANGED <<kind, orig, stream, result, ref, call, fault>>

Flop ==
    /\ Repeats("Flop")
    /\ img' = CASE kind = "PBM" -> PBM_Flop(img)
                [] kind = "PGM" -> PGM_Flop(img)
                [] kind = "PPM" -> PPM_Flop(img)
    /\ hist' = Append(hist, "Flop")
    /\ UNCHANGED <<kind, orig, stream, result, ref, call, fault>>

\* a PBM has no Rotate90CW
Rotate90CW ==
    /\ Repeats("Rotate90CW")
    /\ kind # "PBM"
    /\ img' = CASE kind = "PGM" -> PGM_Rotate90CW(img)
                [] kind = "PPM" -> PPM_Rotate90CW(img)
    /\ hist' = Append(hist, "Rotate90CW")
    /\ UNCHANGED <<kind, orig, stream, result, ref, call, fault>>

TransformNext == Invert \/ Flip \/ Flop \/ Rotate90CW

SpecTransform == TransformInit /\ [][TransformNext]_vars

\* hist is exactly n applications of op
Applied(op, n) == Len(hist) = n /\ \A i \in 1..n : hist[i] = op

\* C2: Invert is involutive for PBM, PGM and PPM grids: after two calls of
\* Invert every sample (every channel of a pixel) has its original value, for
\* any max value and any 8-bit samples (the subtraction wraps modulo 2^8), and
\* width, height, max and magic number are unchanged.
InvertInvolutive == Applied("Invert", 2) => img = orig

\* two Inverts of a grid holding a sample above max, where max - sample wraps
InvertTwiceWrapped ==
    /\ Applied("Invert", 2)
    /\ kind = "PGM"
    /\ orig.max = 100
    /\ \E y \in 1..orig.height, x \in 1..orig.width : orig.data[y][x] = 200

\* C3: Flip and Flop are each involutive for all three grid kinds and every
\* width and height: Flip, Flip and Flop, Flop return every sample to its
\* original (x, y), with width and height unchanged.
FlipFlopInvolutive ==
    (Applied("Flip", 2) \/ Applied("Flop", 2)) => img = orig

\* two Flips of a grid of odd width whose first Flip changed a row
FlipTwiceOddWidth ==
    /\ Applied("Flip", 2)
    /\ orig.width = 3
    /\ orig.data[1][1] # orig.data[1][3]

\* C4: one Rotate90CW of a PGM or PPM grid swaps width and height and moves
\* source cell (x, y) to destination cell (height-1-y, x); four Rotate90CW
\* return the original width, height and samples.
RotateFourCycle ==
    /\ Applied("Rotate90CW", 1) =>
         /\ img.width = orig.height
         /\ img.height = orig.width
         /\ IsShaped(img)
         /\ \A x \in 0..(orig.width - 1), y \in 0..(orig.height - 1) :
              At(img, orig.height - 1 - y, x) = At(orig, x, y)
    /\ Applied("Rotate90CW", 4) => img = orig

\* four rotations of a grid that is not square and not uniform
RotatedFourTimes ==
    /\ Applied("Rotate90CW", 4)
    /\ orig.width = 3
    /\ orig.height = 2
    /\ orig.data[1][1] # orig.data[2][3]

-----------------------------------------------------------------------------
(* The drawing specification: on a blank PPM canvas one shape is drawn; its *)
(* outline goes to img and its filled variant, with the same arguments, to  *)
(* a second blank canvas ref.  Either may be drawn first, and a panic ends  *)
(* the behaviour.                                                           *)

DrawColor == [R |-> 255, G |-> 0, B |-> 0]

\* the canvases: one that holds every coordinate from 0 on, and a narrower one
CanvasSizes == {<<MaxCoord + 1, MaxCoord + 1>>, <<MaxCoord, MaxCoord + 1>>}

Coords == (-1)..MaxCoord

Points == {Point(x, y) : x \in Coords, y \in Coords}

\* the vertices of triangles and polygons
Vertices == {Point(x, y) : x \in 0..MaxCoord, y \in 0..MaxCoord}

VertexLists == UNION {[1..n -> Vertices] : n \in 0..MaxVertices}

NoCall == [shape |-> "none", args |-> <<>>, outline |-> FALSE, filled |-> FALSE]

DrawInit ==
    /\ kind = "PPM"
    /\ \E s \in CanvasSizes :
         img = [data |-> MakeData(s[2], s[1], ZeroPixel), width |-> s[1], height |-> s[2],
                magicNumber |-> "P3", max |-> 255]
    /\ orig = img
    /\ ref = img
    /\ hist = <<>>
    /\ stream = <<>>
    /\ result = <<>>
    /\ call = NoCall
    /\ fault = FALSE

\* the outline or the filled variant of shape may be drawn: nothing has panicked,
\* this variant is not drawn yet, and no other shape is
MayDraw(shape, variant) ==
    /\ ~fault
    /\ call.shape \in {"none", shape}
    /\ ~call[variant]

\* the arguments to draw with: any, or those the other variant was drawn with
ArgsOf(shape, any) == IF call.shape = shape THEN {call.args} ELSE any

\* the outline of a shape is drawn on img: the Set calls pts are made
RunOutline(name, shape, args, pts) ==
    /\ LET r == ApplySets(img.data, pts, 1, DrawColor)
       IN  /\ img' = [img EXCEPT !.data = r.data]
           /\ fault' = r.fault
    /\ call' = [call EXCEPT !.shape = shape, !.args = args, !.outline = TRUE]
    /\ hist' = Append(hist, name)
    /\ UNCHANGED <<kind, orig, stream, result, ref>>

\* the filled variant of a shape is drawn on ref
RunFilled(name, shape, args, pts) ==
    /\ LET r == ApplySets(ref.data, pts, 1, DrawColor)
       IN  /\ ref' = [ref EXCEPT !.data = r.data]
           /\ fault' = r.fault
    /\ call' = [call EXCEPT !.shape = shape, !.args = args, !.filled = TRUE]
    /\ hist' = Append(hist, name)
    /\ UNCHANGED <<kind, orig, stream, result, img>>

LineArgs == [p1 : Points, p2 : Points]

RectangleArgs == [p1 : Points, width : 0..MaxCoord, height : 0..MaxCoord]

CircleArgs == [center : Points, radius : 0..(MaxCoord - 1)]

TriangleArgs == [p1 : Vertices, p2 : Vertices, p3 : Vertices]

PolygonArgs == [points : VertexLists]

DoDrawLine ==
    /\ MayDraw("Line", "outline")
    /\ \E a \in ArgsOf("Line", LineArgs) :
         RunOutline("DrawLine", "Line", a, DrawLine(a.p1, a.p2))

DoDrawRectangle ==
    /\ MayDraw("Rectangle", "outline")
    /\ \E a \in ArgsOf("Rectangle", RectangleArgs) :
         RunOutline("DrawRectangle", "Rectangle", a, DrawRectangle(a.p1, a.width, a.height))

DoDrawFilledRectangle ==
    /\ MayDraw("Rectangle", "filled")
    /\ \E a \in ArgsOf("Rectangle", RectangleArgs) :
         RunFilled("DrawFilledRectangle", "Rectangle", a,
                   DrawFilledRectangle(a.p1, a.width, a.height))

DoDrawCircle ==
    /\ MayDraw("Circle", "outline")
    /\ \E a \in ArgsOf("Circle", CircleArgs) :
         RunOutline("DrawCircle", "Circle", a, DrawCircle(a.center, a.radius))

DoDrawFilledCircle ==
    /\ MayDraw("Circle", "filled")
    /\ \E a \in ArgsOf("Circle", CircleArgs) :
         RunFilled("DrawFilledCircle", "Circle", a, DrawFilledCircle(a.center, a.radius))

DoDrawTriangle ==
    /\ MayDraw("Triangle", "outline")
    /\ \E a \in ArgsOf("Triangle", TriangleArgs) :
         RunOutline("DrawTriangle", "Triangle", a, DrawTriangle(a.p1, a.p2, a.p3))

DoDrawFilledTriangle ==
    /\ MayDraw("Triangle", "filled")
    /\ \E a \in ArgsOf("Triangle", TriangleArgs) :
         RunFilled("DrawFilledTriangle", "Triangle", a, DrawFilledTriangle(a.p1, a.p2, a.p3))

DoDrawPolygon ==
    /\ MayDraw("Polygon", "outline")
    /\ \E a \in ArgsOf("Polygon", PolygonArgs) :
         RunOutline("DrawPolygon", "Polygon", a, DrawPolygon(a.points))

\* points[0] of an empty list is a panic before any Set
DoDrawFilledPolygon ==
    /\ MayDraw("Polygon", "filled")
    /\ \E a \in ArgsOf("Polygon", PolygonArgs) :
         IF Len(a.points) = 0
         THEN /\ fault' = TRUE
              /\ call' = [call EXCEPT !.shape = "Polygon", !.args = a, !.filled = TRUE]
              /\ hist' = Append(hist, "DrawFilledPolygon")
              /\ UNCHANGED <<kind, orig, stream, result, img, ref>>
         ELSE RunFilled("DrawFilledPolygon", "Polygon", a, DrawFilledPolygon(a.points))

DrawNext ==
    \/ DoDrawLine
    \/ DoDrawRectangle
    \/ DoDrawFilledRectangle
    \/ DoDrawCircle
    \/ DoDrawFilledCircle
    \/ DoDrawTriangle
    \/ DoDrawFilledTriangle
    \/ DoDrawPolygon
    \/ DoDrawFilledPolygon

SpecDraw == DrawInit /\ [][DrawNext]_vars

\* (x, y) is a cell of the canvas
OnCanvas(p) == 0 <= p.X /\ p.X < orig.width /\ 0 <= p.Y /\ p.Y < orig.height

\* C5: for any two points p1 and p2 inside the grid (p1 = p2 included), after
\* DrawLine(p1, p2, color) both At(p1.X, p1.Y) and At(p2.X, p2.Y) equal color.
LineEndpointsSet ==
    (call.shape = "Line" /\ OnCanvas(call.args.p1) /\ OnCanvas(call.args.p2)) =>
        /\ At(img, call.args.p1.X, call.args.p1.Y) = DrawColor
        /\ At(img, call.args.p2.X, call.args.p2.Y) = DrawColor

\* the vertices of the shape drawn
ShapeVertices ==
    CASE call.shape = "Rectangle" ->
            {call.args.p1,
             Point(call.args.p1.X + call.args.width, call.args.p1.Y + call.args.height)}
      [] call.shape = "Triangle" -> {call.args.p1, call.args.p2, call.args.p3}
      [] call.shape = "Polygon" -> {call.args.points[i] : i \in DOMAIN call.args.points}
      [] OTHER -> {}

\* C6: for any geometry lying inside the grid, every pixel set by
\* DrawRectangle, DrawTriangle or DrawPolygon is also set by
\* DrawFilledRectangle, DrawFilledTriangle or DrawFilledPolygon with the same
\* arguments.
FilledCoversOutline ==
    (/\ call.shape \in {"Rectangle", "Triangle", "Polygon"}
     /\ call.outline
     /\ call.filled
     /\ \A p \in ShapeVertices : OnCanvas(p)) =>
        \A x \in 0..(orig.width - 1), y \in 0..(orig.height - 1) :
            At(img, x, y) = DrawColor => At(ref, x, y) = DrawColor

\* C7: a drawing call whose geometry lies partly or wholly outside the grid
\* completes without an out-of-range access (the writes outside the grid are
\* skipped), and width and height are unchanged.
DrawingClips ==
    /\ ~fault
    /\ img.width = orig.width /\ img.height = orig.height /\ IsShaped(img)
    /\ ref.width = orig.width /\ ref.height = orig.height /\ IsShaped(ref)

\* the edges of the vertex list (numbered as DrawFilledPolygon processes them)
\* that are not horizontal and span row y
SpanningEdges(points, y) ==
    {i \in 1..Len(points) :
        LET p1 == points[i]
            p2 == points[(i % Len(points)) + 1]
        IN  /\ p1.Y # p2.Y
            /\ Min2(p1.Y, p2.Y) <= y
            /\ y <= Max2(p1.Y, p2.Y)}

\* the x-coordinate at which the edge p1-p2 crosses row y, in exact arithmetic,
\* as a whole pixel (it is not negative for an edge inside the grid)
CrossingX(p1, p2, y) ==
    LET dy == p2.Y - p1.Y
        n == p1.X * dy + (y - p1.Y) * (p2.X - p1.X)
    IN  IF dy > 0 THEN n \div dy ELSE (-n) \div (-dy)

\* the pixel (x, y) is one that the scan rule fills for the vertex list
ScanRuleFills(points, x, y) ==
    LET box == BoundingBox(points)
        edges == SpanningEdges(points, y)
        last == CHOOSE i \in edges : \A j \in edges : j <= i
    IN  /\ box.minY <= y /\ y <= box.maxY
        /\ edges # {}
        /\ CrossingX(points[last], points[(last % Len(points)) + 1], y) <= x
        /\ x <= box.maxX

\* C11: for a vertex list inside the grid, after DrawFilledPolygon every row
\* of the bounding box that a non-horizontal edge spans has exactly the pixels
\* from the x-coordinate at which the last-processed such edge crosses the row
\* through maxX set to color, and no pixel outside the bounding box or on a
\* row that no non-horizontal edge spans is changed.
FilledPolygonScanRule ==
    (/\ call.shape = "Polygon"
     /\ call.filled
     /\ Len(call.args.points) > 0
     /\ \A p \in ShapeVertices : OnCanvas(p)) =>
        /\ ~fault
        /\ \A x \in 0..(orig.width - 1), y \in 0..(orig.height - 1) :
             (At(ref, x, y) = DrawColor) <=> ScanRuleFills(call.args.points, x, y)

-----------------------------------------------------------------------------
(* The mutator specification: a well-formed PGM or PPM grid is constructed, *)
(* then the public mutators are called on it in any order.                  *)

\* every sample (every channel of a pixel) of g is within 0..max
SamplesInRange(g) ==
    \A y \in 1..Len(g.data) : \A x \in 1..Len(g.data[y]) :
        IF kind = "PPM"
        THEN /\ 0 <= g.data[y][x].R /\ g.data[y][x].R <= g.max
             /\ 0 <= g.data[y][x].G /\ g.data[y][x].G <= g.max
             /\ 0 <= g.data[y][x].B /\ g.data[y][x].B <= g.max
        ELSE 0 <= g.data[y][x] /\ g.data[y][x] <= g.max

MutatorShapes == {<<1, 1>>, <<2, 1>>, <<1, 2>>}

MutatorGrays == {0, 50, 100}

MutatorPixels == {[R |-> 0, G |-> 50, B |-> 100], [R |-> 100, G |-> 100, B |-> 0]}

MutatorMaxValues == {50, 100, 255}

MutatorInit ==
    /\ kind \in {"PGM", "PPM"}
    /\ \E s \in MutatorShapes, m \in MutatorMaxValues :
         \/ /\ kind = "PGM"
            /\ \E d \in AllData(s[1], s[2], MutatorGrays) :
                 img = [data |-> d, width |-> s[1], height |-> s[2],
                        magicNumber |-> "P2", max |-> m]
         \/ /\ kind = "PPM"
            /\ \E d \in AllData(s[1], s[2], MutatorPixels) :
                 img = [data |-> d, width |-> s[1], height |-> s[2],
                        magicNumber |-> "P3", max |-> m]
    /\ SamplesInRange(img)
    /\ orig = img
    /\ hist = <<>>
    /\ stream = <<>>
    /\ result = <<>>
    /\ ref = <<>>
    /\ call = <<>>
    /\ fault = FALSE

\* the mutator named op is called and leaves the grid g
Mutate(op, g) ==
    /\ Len(hist) < MaxMutations
    /\ img' = g
    /\ hist' = Append(hist, op)
    /\ UNCHANGED <<kind, orig, stream, result, ref, call, fault>>

MutInvert == Mutate("Invert", IF kind = "PGM" THEN PGM_Invert(img) ELSE PPM_Invert(img))

MutFlip == Mutate("Flip", IF kind = "PGM" THEN PGM_Flip(img) ELSE PPM_Flip(img))

MutFlop == Mutate("Flop", IF kind = "PGM" THEN PGM_Flop(img) ELSE PPM_Flop(img))

MutRotate90CW ==
    Mutate("Rotate90CW", IF kind = "PGM" THEN PGM_Rotate90CW(img) ELSE PPM_Rotate90CW(img))

MutSetMagicNumber ==
    \E m \in {"P2", "P3"} : Mutate("SetMagicNumber", SetMagicNumber(img, m))

MutSetMaxValue ==
    \E m \in MutatorMaxValues : Mutate("SetMaxValue", SetMaxValue(img, m))

\* Set(x, y, v) with (x, y) in range and v (every channel of v) at most the current max
MutSet ==
    \E x \in 0..(img.width - 1), y \in 0..(img.height - 1) :
        \E v \in (IF kind = "PGM"
                  THEN {g \in MutatorGrays : g <= img.max}
                  ELSE {q \in MutatorPixels : q.R <= img.max /\ q.G <= img.max /\ q.B <= img.max}) :
            Mutate("Set", Set(img, x, y, v))

MutatorNext ==
    \/ MutInvert
    \/ MutFlip
    \/ MutFlop
    \/ MutRotate90CW
    \/ MutSetMagicNumber
    \/ MutSetMaxValue
    \/ MutSet

SpecMutators == MutatorInit /\ [][MutatorNext]_vars

\* C9: from a PGM or PPM grid whose data has exactly height rows of exactly
\* width samples, every sample (every channel) within 0..max, the same holds
\* after any sequence of Invert, Flip, Flop, Rotate90CW, SetMagicNumber,
\* SetMaxValue and in-range Set with a value at most the current max.
GridInvariant == IsShaped(img) /\ SamplesInRange(img)

-----------------------------------------------------------------------------
(* The conversion specification: a PGM or PPM grid is constructed and       *)
(* converted; result holds the grids the conversions return.                *)

ConvertShapes == {<<1, 1>>, <<2, 1>>, <<1, 2>>}

\* pixels whose luminosity lies on, next to and far from the threshold 128
ConvertPixels ==
    {[R |-> 0, G |-> 0, B |-> 0], [R |-> 1, G |-> 1, B |-> 1],
     [R |-> 128, G |-> 128, B |-> 128], [R |-> 129, G |-> 128, B |-> 128],
     [R |-> 129, G |-> 129, B |-> 129], [R |-> 128, G |-> 129, B |-> 130],
     [R |-> 255, G |-> 255, B |-> 255]}

ConvertGrays == {0, 50, 127, 128, 200, 255}

ConvertPGMMaxValues == {1, 100, 255, 65736}

ConvertPPMMaxValues == {100, 255}

ConvertInit ==
    /\ kind \in {"PGM", "PPM"}
    /\ \E s \in ConvertShapes :
         \/ /\ kind = "PGM"
            /\ \E d \in AllData(s[1], s[2], ConvertGrays), m \in ConvertPGMMaxValues :
                 img = [data |-> d, width |-> s[1], height |-> s[2],
                        magicNumber |-> "P2", max |-> m]
         \/ /\ kind = "PPM"
            /\ \E d \in AllData(s[1], s[2], ConvertPixels), m \in ConvertPPMMaxValues :
                 img = [data |-> d, width |-> s[1], height |-> s[2],
                        magicNumber |-> "P3", max |-> m]
    /\ orig = img
    /\ hist = <<>>
    /\ stream = <<>>
    /\ result = [pgm |-> <<>>, pbm |-> <<>>]
    /\ ref = <<>>
    /\ call = <<>>
    /\ fault = FALSE

\* the operation named op has been applied
Did(op) == \E i \in 1..Len(hist) : hist[i] = op

PPMToPGM ==
    /\ kind = "PPM"
    /\ ~Did("ToPGM")
    /\ result' = [result EXCEPT !.pgm = PPM_ToPGM(img)]
    /\ hist' = Append(hist, "ToPGM")
    /\ UNCHANGED <<kind, img, orig, stream, ref, call, fault>>

PPMToPBM ==
    /\ kind = "PPM"
    /\ ~Did("ToPBM")
    /\ result' = [result EXCEPT !.pbm = PPM_ToPBM(img)]
    /\ hist' = Append(hist, "ToPBM")
    /\ UNCHANGED <<kind, img, orig, stream, ref, call, fault>>

PGMToPBM ==
    /\ kind = "PGM"
    /\ ~Did("ToPBM")
    /\ result' = [result EXCEPT !.pbm = PGM_ToPBM(img)]
    /\ hist' = Append(hist, "ToPBM")
    /\ UNCHANGED <<kind, img, orig, stream, ref, call, fault>>

ConvertNext == PPMToPGM \/ PPMToPBM \/ PGMToPBM

SpecConvert == ConvertInit /\ [][ConvertNext]_vars

\* C10: PPM.ToPBM sets pixel (x, y) dark exactly when the luminance
\* floor(0.299*R + 0.587*G + 0.114*B), the value PPM.ToPGM stores, is > 128;
\* PGM.ToPBM sets it dark exactly when sample > max/2 (integer division), for
\* every max; both results have the width and height of the source.
BitmapThresholds ==
    /\ (kind = "PPM" /\ Did("ToPBM") /\ Did("ToPGM")) =>
         /\ result.pbm.width = img.width
         /\ result.pbm.height = img.height
         /\ IsShaped(result.pbm)
         /\ \A x \in 0..(img.width - 1), y \in 0..(img.height - 1) :
              /\ At(result.pbm, x, y) = (At(result.pgm, x, y) > 128)
              /\ At(result.pbm, x, y) =
                   ((299 * At(img, x, y).R + 587 * At(img, x, y).G
                        + 114 * At(img, x, y).B) \div 1000 > 128)
    /\ (kind = "PGM" /\ Did("ToPBM")) =>
         /\ result.pbm.width = img.width
         /\ result.pbm.height = img.height
         /\ IsShaped(result.pbm)
         /\ \A x \in 0..(img.width - 1), y \in 0..(img.height - 1) :
              At(result.pbm, x, y) = (At(img, x, y) > img.max \div 2)

-----------------------------------------------------------------------------
(* The codec specification: a grid is saved, the file is left as it is or   *)
(* loses samples, and the file is read by the reader of the grid's kind.    *)

\* the cells of the grids of which every content is tried
MaxPixels == 4

\* the bytes that are cut from the end of a file, at most
MaxCut == 5

\* the samples of a file of which one is dropped are its first MaxDrop
MaxDrop == 4

CodecShapes == {s \in (1..MaxPixels) \X (1..MaxPixels) : s[1] * s[2] <= MaxPixels}

\* bitmaps with rows of more than one byte, and bitmaps whose P4 file is
\* longer than the reader's buffer (the last one fits in it)
WideShapes == {<<9, 1>>, <<16, 2>>, <<17, 1>>}

LongShapes == {<<8 * BufSize, 1>>, <<4 * BufSize, 2>>, <<8 * (BufSize - 100), 1>>}

Pattern(w, h, k) == [y \in 1..h |-> [x \in 1..w |-> (x + y) % k = 0]]

CodecGrays == {7, 200}

CodecPixels == {[R |-> 7, G |-> 200, B |-> 0], [R |-> 255, G |-> 1, B |-> 128]}

CodecPGMMaxValues == {200, 255, 300}

CodecPPMMaxValues == {200, 255}

NotRead == [status |-> "none"]

CodecInit ==
    /\ kind \in {"PBM", "PGM", "PPM"}
    /\ \/ /\ kind = "PBM"
          /\ \E m \in {"P1", "P4"} :
               \/ \E s \in CodecShapes : \E d \in AllData(s[1], s[2], BOOLEAN) :
                    img = [data |-> d, width |-> s[1], height |-> s[2], magicNumber |-> m]
               \/ \E s \in WideShapes, k \in {2, 3} :
                    img = [data |-> Pattern(s[1], s[2], k), width |-> s[1],
                           height |-> s[2], magicNumber |-> m]
               \/ /\ m = "P4"
                  /\ \E s \in LongShapes :
                       img = [data |-> Pattern(s[1], s[2], 3), width |-> s[1],
                              height |-> s[2], magicNumber |-> m]
       \/ /\ kind = "PGM"
          /\ \E s \in CodecShapes : \E d \in AllData(s[1], s[2], CodecGrays) :
               \E m \in CodecPGMMaxValues :
                 img = [data |-> d, width |-> s[1], height |-> s[2],
                        magicNumber |-> "P2", max |-> m]
       \/ /\ kind = "PPM"
          /\ \E s \in CodecShapes : \E d \in AllData(s[1], s[2], CodecPixels) :
               \E m \in CodecPPMMaxValues :
                 img = [data |-> d, width |-> s[1], height |-> s[2],
                        magicNumber |-> "P3", max |-> m]
    /\ orig = img
    /\ hist = <<>>
    /\ stream = <<>>
    /\ result = NotRead
    /\ ref = <<>>
    /\ call = <<>>
    /\ fault = FALSE

\* the length of the header of the file of grid g
HeaderLen(g) == IF kind = "PBM" THEN Len(PBMHeader(g)) ELSE Len(MaxHeader(g))

\* a P4 file holds its samples in bytes, the other files hold them in tokens
IsPacked(g) == kind = "PBM" /\ g.magicNumber = "P4"

\* the samples (tokens or packed bytes) that the file of g needs, and those
\* that the file s holds after the header
SamplesNeeded(g) ==
    CASE IsPacked(g) -> g.height * ((g.width + 7) \div 8)
      [] kind = "PPM" -> 3 * g.width * g.height
      [] OTHER -> g.width * g.height

SamplesHeld(s, g) ==
    IF IsPacked(g)
    THEN Len(s) - HeaderLen(g)
    ELSE Len(Fields(SubSeq(s, HeaderLen(g) + 1, Len(s))))

\* the index of the first byte of the k-th token at or after byte from
RECURSIVE TokenStart(_, _, _)
TokenStart(s, from, k) ==
    LET first == IndexSpace(s, from, FALSE)
    IN  IF k = 1 THEN first ELSE TokenStart(s, IndexSpace(s, first, TRUE), k - 1)

\* the file s without the k-th sample after the header: a token goes with the
\* space that follows it
WithoutSample(s, g, k) ==
    IF IsPacked(g)
    THEN SubSeq(s, 1, HeaderLen(g) + k - 1) \o SubSeq(s, HeaderLen(g) + k + 1, Len(s))
    ELSE LET first == TokenStart(s, HeaderLen(g) + 1, k)
             after == IndexSpace(s, first, TRUE)
         IN  SubSeq(s, 1, first - 1) \o SubSeq(s, after + 1, Len(s))

DoSave ==
    /\ hist = <<>>
    /\ stream' = CASE kind = "PBM" -> PBM_Save(img)
                   [] kind = "PGM" -> PGM_Save(img)
                   [] kind = "PPM" -> PPM_Save(img)
    /\ hist' = <<"Save">>
    /\ UNCHANGED <<kind, img, orig, result, ref, call, fault>>

\* the file loses bytes at its end; the header stays
DoCutTail ==
    /\ hist = <<"Save">>
    /\ \E n \in 1..MaxCut :
         /\ Len(stream) - n >= HeaderLen(img)
         /\ stream' = SubSeq(stream, 1, Len(stream) - n)
    /\ hist' = Append(hist, "CutTail")
    /\ UNCHANGED <<kind, img, orig, result, ref, call, fault>>

\* the file loses one sample inside
DoDropSample ==
    /\ hist = <<"Save">>
    /\ \E k \in 1..Min2(MaxDrop, SamplesHeld(stream, img)) :
         stream' = WithoutSample(stream, img, k)
    /\ hist' = Append(hist, "DropSample")
    /\ UNCHANGED <<kind, img, orig, result, ref, call, fault>>

DoRead ==
    /\ hist # <<>>
    /\ hist[Len(hist)] # "Read"
    /\ result' = CASE kind = "PBM" -> ReadPBM(stream)
                   [] kind = "PGM" -> ReadPGM(stream)
                   [] kind = "PPM" -> ReadPPM(stream)
    /\ hist' = Append(hist, "Read")
    /\ UNCHANGED <<kind, img, orig, stream, ref, call, fault>>

CodecNext == DoSave \/ DoCutTail \/ DoDropSample \/ DoRead

SpecCodec == CodecInit /\ [][CodecNext]_vars

(* C1: a grid with width >= 1, height >= 1 and its samples in range that is  *)
(* written with Save and read back with the reader of its kind is read       *)
(* without an error and comes back with the same magic number, width,        *)
(* height, max value and samples.                                            *)
RoundTrip ==
    hist = <<"Save", "Read">> => (result.status = "ok" /\ result.grid = orig)

(* C8: a file with a valid header that holds fewer samples (tokens or packed *)
(* bytes) than its width and height need is rejected by the reader with an   *)
(* error: no grid is returned and the reader does not fault.                 *)
TruncatedInputRejected ==
    (/\ Len(hist) = 3
     /\ hist[3] = "Read"
     /\ SamplesHeld(stream, orig) < SamplesNeeded(orig))
        => result.status = "error"

====
